---- MODULE Spec2Model ----
(***************************************************************************)
(* Model of the invoice field extractor of src/app.py:                     *)
(* extract_invoice_fields and the normalizers it calls.                    *)
(*                                                                         *)
(* Text is modelled at the level of lexical items.  A line is a page       *)
(* number and a sequence of tokens; each token stands for a fragment of    *)
(* text and carries what the regular expressions of app.py read from it:   *)
(* the label it spells, the digit groups of a date, the value of an        *)
(* amount, its casing and character class.  Numbers keep the digits they   *)
(* were written with where the code's int() forgets them (field w).        *)
(* Confidences are in hundredths (0.9 is 90); amounts are whole units.     *)
(***************************************************************************)
EXTENDS Integers, Sequences, FiniteSets, TLC

VARIABLES lines, pc, i, fields, warnings, best, candidates, after1, visits, outcome,
          raw, enc, dec

vars == <<lines, pc, i, fields, warnings, best, candidates, after1, visits, outcome,
          raw, enc, dec>>

(***************************************************************************)
(* Bounds of the model.                                                    *)
(***************************************************************************)
MaxLines == 2
MaxPage == 2
MaxDay == 32
MaxMonth == 13
MaxTextLen == 4
MaxPageNo == 12

(***************************************************************************)
(* Tokens.  Every token is a record [k, txt, a, b, c, w]:                  *)
(*   label  txt = category of the label phrase (total, date, po)           *)
(*   hint   a vendor-introduction phrase                                   *)
(*   delim  txt = the delimiter (":", " - ", en-dash)                        *)
(*   word   txt = the word, a = casing (0 none, 1 lower, 2 title,          *)
(*          3 upper), b = 1 when all characters are in the vendor          *)
(*          character class, c = length                                    *)
(*   amt    txt = currency symbol ("$", "pound", "euro", "" when none),    *)
(*          a = value                                                      *)
(*   iso    a-b-c written YYYY-MM-DD                                       *)
(*   num    a/b/c, the year c written with w digits                        *)
(*   mdy    txt = month word, b = day, c = year written with w digits,     *)
(*          in the order Month Day, Year                                   *)
(*   dmy    the same fields written in the order Day Month Year            *)
(*   tok    txt = an identifier with a digit, a = the number it ends in,   *)
(*          b = 1 when it starts with the word PO followed by "-"          *)
(***************************************************************************)
Tok(k, txt, a, b, c, w) == [k |-> k, txt |-> txt, a |-> a, b |-> b, c |-> c, w |-> w]

Lbl(cat) == Tok("label", cat, 0, 0, 0, 0)
Hint(txt) == Tok("hint", txt, 0, 0, 0, 0)
Delim(txt) == Tok("delim", txt, 0, 0, 0, 0)
Word(txt, casing, cls, len) == Tok("word", txt, casing, cls, len, 0)
Amt(cur, val) == Tok("amt", cur, val, 0, 0, 0)
Iso(y, m, d) == Tok("iso", "", y, m, d, 4)
Num(g1, g2, y, w) == Tok("num", "", g1, g2, y, w)
Mdy(mon, d, y, w) == Tok("mdy", mon, 0, d, y, w)
Dmy(mon, d, y, w) == Tok("dmy", mon, 0, d, y, w)
PoTok(txt, n, po) == Tok("tok", txt, n, po, 0, 0)

(***************************************************************************)
(* The absent value (Python's None) is the empty sequence; a present value *)
(* v is <<v>>.                                                             *)
(***************************************************************************)
None == <<>>
Some(v) == <<v>>

RECURSIVE SelectToks(_, _)
SelectToks(toks, kinds) ==
    IF toks = <<>> THEN <<>>
    ELSE IF Head(toks).k \in kinds
         THEN <<Head(toks)>> \o SelectToks(Tail(toks), kinds)
         ELSE SelectToks(Tail(toks), kinds)

(***************************************************************************)
(* _label_in: a label pattern of the category is found in the text.  The   *)
(* label "po" also matches the leading PO of an identifier like PO-99123.  *)
(***************************************************************************)
LabelIn(toks, cat) ==
    \E j \in 1..Len(toks) :
        \/ toks[j].k = "label" /\ toks[j].txt = cat
        \/ cat = "po" /\ toks[j].k = "tok" /\ toks[j].b = 1

(***************************************************************************)
(* AMOUNT_RE: the amounts the pattern finds in a token, in text order.     *)
(* The digit groups of dates and identifiers are delimited by non-word     *)
(* characters, so the pattern finds them too.                              *)
(***************************************************************************)
AmountMatches(t) ==
    CASE t.k = "amt" -> <<[val |-> t.a, cur |-> t.txt]>>
      [] t.k \in {"iso", "num"} ->
            <<[val |-> t.a, cur |-> ""], [val |-> t.b, cur |-> ""], [val |-> t.c, cur |-> ""]>>
      [] t.k \in {"mdy", "dmy"} -> <<[val |-> t.b, cur |-> ""], [val |-> t.c, cur |-> ""]>>
      [] t.k = "tok" -> <<[val |-> t.a, cur |-> ""]>>
      [] OTHER -> <<>>

RECURSIVE AllAmounts(_)
AllAmounts(toks) ==
    IF toks = <<>> THEN <<>> ELSE AmountMatches(Head(toks)) \o AllAmounts(Tail(toks))

CurrencyCode(cur) ==
    CASE cur = "$" -> "USD"
      [] cur = "pound" -> "GBP"
      [] cur = "euro" -> "EUR"
      [] OTHER -> "None"

(***************************************************************************)
(* _norm_amount: AMOUNT_RE.search takes the first match of the text.       *)
(***************************************************************************)
NormAmount(toks) ==
    LET ms == AllAmounts(toks) IN
    IF ms = <<>> THEN None
    ELSE Some([val |-> ms[1].val, unit |-> CurrencyCode(ms[1].cur)])

(***************************************************************************)
(* datetime.date(y, m, d): raises ValueError unless the triple is a        *)
(* calendar date with 1 <= y <= 9999.                                      *)
(***************************************************************************)
IsLeap(y) == (y % 4 = 0 /\ y % 100 /= 0) \/ y % 400 = 0

DaysInMonth(y, m) ==
    CASE m \in {1, 3, 5, 7, 8, 10, 12} -> 31
      [] m \in {4, 6, 9, 11} -> 30
      [] m = 2 -> IF IsLeap(y) THEN 29 ELSE 28
      [] OTHER -> 0

DateCtor(y, m, d) ==
    IF y >= 1 /\ y <= 9999 /\ m >= 1 /\ m <= 12 /\ d >= 1 /\ d <= DaysInMonth(y, m)
    THEN [exc |-> FALSE, val |-> Some(<<y, m, d>>)]
    ELSE [exc |-> TRUE, val |-> None]

(***************************************************************************)
(* _norm_date_fragment: the year pivot on the integer value, then the      *)
(* constructor inside try/except, so that an impossible date is None.      *)
(***************************************************************************)
NormDateFragmentNoCatch(y, m, d) ==
    DateCtor(IF y < 100 THEN (IF y < 50 THEN y + 2000 ELSE y + 1900) ELSE y, m, d)

NormDateFragment(y, m, d) ==
    LET yy == IF y < 100 THEN (IF y < 50 THEN y + 2000 ELSE y + 1900) ELSE y
        r == DateCtor(yy, m, d)
    IN  IF r.exc THEN [exc |-> FALSE, val |-> None] ELSE r

(***************************************************************************)
(* The month-name pattern: group 1 is the first alternative of             *)
(* Jan|Feb|...|Sep|Sept|...|Dec that prefixes the word, the rest of the    *)
(* word being letters; the code looks up its lower-cased first three       *)
(* letters in mon_map.                                                     *)
(***************************************************************************)
MonthWords == {"Jan", "Feb", "sept", "October", "Dec"}

MonthGroup(word) ==
    CASE word = "Jan" -> "Jan"
      [] word = "Feb" -> "Feb"
      [] word = "sept" -> "sep"
      [] word = "October" -> "Oct"
      [] word = "Dec" -> "Dec"

LowerFirst3(g) ==
    CASE g = "Jan" -> "jan"
      [] g = "Feb" -> "feb"
      [] g = "sep" -> "sep"
      [] g = "Oct" -> "oct"
      [] g = "Dec" -> "dec"

mon_map ==
    [k \in {"jan", "feb", "mar", "apr", "may", "jun", "jul", "aug", "sep", "sept",
            "oct", "nov", "dec"} |->
        CASE k = "jan" -> 1 [] k = "feb" -> 2 [] k = "mar" -> 3 [] k = "apr" -> 4
          [] k = "may" -> 5 [] k = "jun" -> 6 [] k = "jul" -> 7 [] k = "aug" -> 8
          [] k = "sep" -> 9 [] k = "sept" -> 9 [] k = "oct" -> 10 [] k = "nov" -> 11
          [] k = "dec" -> 12]

(***************************************************************************)
(* DATE_RES: the three patterns, in the order the code tries them, as the  *)
(* kinds of fragment each one matches.  No pattern matches a fragment      *)
(* written Day Month Year.                                                 *)
(***************************************************************************)
DATE_RES_BothOrders == <<{"iso"}, {"num"}, {"mdy", "dmy"}>>

DATE_RES == <<{"iso"}, {"num"}, {"mdy"}>>

(***************************************************************************)
(* The body of the finditer loop of _extract_dates for one match.          *)
(***************************************************************************)
DateOfMatch(t) ==
    CASE t.k = "iso" -> NormDateFragment(t.a, t.b, t.c)
      [] t.k \in {"mdy", "dmy"} ->
            LET key == LowerFirst3(MonthGroup(t.txt)) IN
            IF key \in DOMAIN mon_map
            THEN NormDateFragment(t.c, mon_map[key], t.b)
            ELSE [exc |-> TRUE, val |-> None]
      [] OTHER -> NormDateFragment(t.c, t.b, t.a)

RECURSIVE DatesOfMatches(_)
DatesOfMatches(ms) ==
    IF ms = <<>> THEN [exc |-> FALSE, dates |-> <<>>]
    ELSE LET r == DateOfMatch(Head(ms))
             rest == DatesOfMatches(Tail(ms))
         IN  [exc |-> r.exc \/ rest.exc, dates |-> r.val \o rest.dates]

(***************************************************************************)
(* _extract_dates: for each pattern in order, every match in text order.   *)
(***************************************************************************)
ExtractDates(toks) ==
    LET r1 == DatesOfMatches(SelectToks(toks, DATE_RES[1]))
        r2 == DatesOfMatches(SelectToks(toks, DATE_RES[2]))
        r3 == DatesOfMatches(SelectToks(toks, DATE_RES[3]))
    IN  [exc |-> r1.exc \/ r2.exc \/ r3.exc, dates |-> r1.dates \o r2.dates \o r3.dates]

(***************************************************************************)
(* Order of dates (datetime.date comparison) and min().                    *)
(***************************************************************************)
DateLT(d, e) ==
    \/ d[1] < e[1]
    \/ d[1] = e[1] /\ d[2] < e[2]
    \/ d[1] = e[1] /\ d[2] = e[2] /\ d[3] < e[3]

DateLE(d, e) == d = e \/ DateLT(d, e)

MinDate(ds) == CHOOSE d \in {ds[j] : j \in 1..Len(ds)} : \A j \in 1..Len(ds) : DateLE(d, ds[j])

(***************************************************************************)
(* _value_after_delimiter: for each delimiter in the order ":", " - ",     *)
(* en-dash, the text after its first occurrence when that is not empty.    *)
(***************************************************************************)
DELIMS == <<":", " - ", "endash">>

FirstIndex(toks, d) ==
    IF \E j \in 1..Len(toks) : toks[j].k = "delim" /\ toks[j].txt = d
    THEN CHOOSE j \in 1..Len(toks) :
            /\ toks[j].k = "delim" /\ toks[j].txt = d
            /\ \A h \in 1..(j - 1) : ~(toks[h].k = "delim" /\ toks[h].txt = d)
    ELSE 0

TailAfter(toks, d) ==
    IF FirstIndex(toks, d) = 0 THEN <<>>
    ELSE SubSeq(toks, FirstIndex(toks, d) + 1, Len(toks))

ValueAfterDelimiter(toks) ==
    IF TailAfter(toks, DELIMS[1]) /= <<>> THEN Some(TailAfter(toks, DELIMS[1]))
    ELSE IF TailAfter(toks, DELIMS[2]) /= <<>> THEN Some(TailAfter(toks, DELIMS[2]))
    ELSE IF TailAfter(toks, DELIMS[3]) /= <<>> THEN Some(TailAfter(toks, DELIMS[3]))
    ELSE None

(***************************************************************************)
(* What _maybe_vendor reads from the text: its length, whether all its     *)
(* characters are in the class [A-Za-z0-9&@.\-,' ], str.isupper and        *)
(* str.istitle.                                                            *)
(***************************************************************************)
TokLen(t) ==
    CASE t.k = "label" -> 5
      [] t.k = "hint" -> 6
      [] t.k = "delim" -> 1
      [] t.k = "word" -> t.c
      [] t.k = "amt" -> 4
      [] t.k = "iso" -> 10
      [] t.k = "num" -> 6 + t.w
      [] t.k \in {"mdy", "dmy"} -> 8 + t.w
      [] OTHER -> 8

RECURSIVE TextLen(_)
TextLen(toks) ==
    IF toks = <<>> THEN 0
    ELSE IF Len(toks) = 1 THEN TokLen(Head(toks))
    ELSE TokLen(Head(toks)) + 1 + TextLen(Tail(toks))

InClass(t) ==
    CASE t.k \in {"label", "hint", "iso", "mdy", "dmy", "tok"} -> TRUE
      [] t.k = "delim" -> t.txt = " - "
      [] t.k = "word" -> t.b = 1
      [] t.k = "amt" -> t.txt = ""
      [] OTHER -> FALSE

Casing(t) ==
    CASE t.k \in {"label", "hint"} -> 2
      [] t.k = "word" -> t.a
      [] t.k \in {"mdy", "dmy"} -> IF t.txt = "sept" THEN 1 ELSE 2
      [] t.k = "tok" -> 3
      [] OTHER -> 0

IsUpper(toks) ==
    /\ \E j \in 1..Len(toks) : Casing(toks[j]) /= 0
    /\ \A j \in 1..Len(toks) : Casing(toks[j]) \in {0, 3}

IsTitle(toks) ==
    /\ \E j \in 1..Len(toks) : Casing(toks[j]) /= 0
    /\ \A j \in 1..Len(toks) : Casing(toks[j]) \in {0, 2}

_VENDOR_HINTS == {"hint"}

(***************************************************************************)
(* _maybe_vendor: at most one (value, confidence) candidate for a line.    *)
(***************************************************************************)
MaybeVendor(toks) ==
    IF TextLen(toks) < 3 THEN None
    ELSE IF \E j \in 1..Len(toks) : toks[j].k \in _VENDOR_HINTS
    THEN LET v == ValueAfterDelimiter(toks)
             cand == IF v /= None THEN v[1] ELSE toks
         IN  IF cand /= <<>> /\ TextLen(cand) <= 80
             THEN Some([value |-> cand, conf |-> 90])
             ELSE None
    ELSE IF /\ \A j \in 1..Len(toks) : InClass(toks[j])
            /\ TextLen(toks) >= 3 /\ TextLen(toks) <= 80
            /\ (IsUpper(toks) \/ IsTitle(toks))
    THEN Some([value |-> toks, conf |-> 40])
    ELSE None

(***************************************************************************)
(* _PO_TOKEN_RE.findall and the digit test: the first identifier of the    *)
(* candidate text that contains a digit.  A date written with "-" or "/"   *)
(* is one identifier; an amount is its digits without the symbol; of a     *)
(* month-name date the day is the first identifier with a digit.           *)
(***************************************************************************)
DigitTokens(t) ==
    CASE t.k \in {"tok", "iso", "num"} -> <<t>>
      [] t.k = "amt" -> <<Amt("", t.a)>>
      [] t.k \in {"mdy", "dmy"} -> <<Amt("", t.b)>>
      [] OTHER -> <<>>

RECURSIVE AllDigitTokens(_)
AllDigitTokens(toks) ==
    IF toks = <<>> THEN <<>> ELSE DigitTokens(Head(toks)) \o AllDigitTokens(Tail(toks))

PoTokenMatch(toks) ==
    LET v == ValueAfterDelimiter(toks)
        candidate == IF v /= None THEN v[1] ELSE toks
        ts == AllDigitTokens(candidate)
    IN  IF ts = <<>> THEN None ELSE Some(ts[1])

(***************************************************************************)
(* ExtractedField, and the dict fields keyed by field name: a function     *)
(* whose domain is the set of names set so far.                            *)
(***************************************************************************)
ExtractedField(name, value, units, type, confidence, page, method, source) ==
    [name |-> name, value |-> value, units |-> units, type |-> type,
     confidence |-> confidence, page |-> page, method |-> method, source |-> source]

EmptyFields == [n \in {} |-> 0]

Put(f, name, rec) == [n \in (DOMAIN f) \cup {name} |-> IF n = name THEN rec ELSE f[n]]

IsoFormat(d) == [year |-> d[1], month |-> d[2], day |-> d[3]]

UnitOrUSD(unit) == IF unit /= "None" THEN unit ELSE "USD"

(***************************************************************************)
(* Pass 1, the four blocks of the loop body for one line.                  *)
(***************************************************************************)
Pass1TotalFirstWins(f, ln) ==
    IF LabelIn(ln.toks, "total") /\ NormAmount(ln.toks) /= None /\ "total" \notin DOMAIN f
    THEN Put(f, "total",
             ExtractedField("total", NormAmount(ln.toks)[1].val,
                            UnitOrUSD(NormAmount(ln.toks)[1].unit), "currency", 90,
                            ln.page, "regex", "label+amount"))
    ELSE f

Pass1Total(f, ln) ==
    IF LabelIn(ln.toks, "total")
    THEN LET amt == NormAmount(ln.toks) IN
         IF amt /= None
         THEN Put(f, "total",
                  ExtractedField("total", amt[1].val, UnitOrUSD(amt[1].unit), "currency", 90,
                                 ln.page, "regex", "label+amount"))
         ELSE f
    ELSE f

Pass1Date(f, ln) ==
    IF LabelIn(ln.toks, "date")
    THEN LET dates == ExtractDates(ln.toks).dates IN
         IF dates /= <<>>
         THEN Put(f, "invoiceDate",
                  ExtractedField("invoiceDate", IsoFormat(MinDate(dates)), "None", "date", 85,
                                 ln.page, "regex", "label+date"))
         ELSE f
    ELSE f

Pass1PO(f, ln) ==
    IF LabelIn(ln.toks, "po")
    THEN LET token_match == PoTokenMatch(ln.toks) IN
         IF token_match /= None
         THEN Put(f, "poNumber",
                  ExtractedField("poNumber", token_match[1], "None", "string", 80,
                                 ln.page, "regex", "label+token"))
         ELSE f
    ELSE f

Pass1VendorStrict(f, ln) ==
    LET vend == MaybeVendor(ln.toks) IN
    IF vend /= None /\ ("vendor" \notin DOMAIN f \/ vend[1].conf > f["vendor"].confidence)
    THEN Put(f, "vendor",
             ExtractedField("vendor", vend[1].value, "None", "string", vend[1].conf, ln.page,
                            IF vend[1].conf < 90 THEN "heuristic" ELSE "label",
                            IF vend[1].conf < 90 THEN "header-line" ELSE "label"))
    ELSE f

Pass1Vendor(f, ln) ==
    LET vend == MaybeVendor(ln.toks) IN
    IF vend /= None
    THEN IF "vendor" \notin DOMAIN f \/ vend[1].conf >= f["vendor"].confidence
         THEN Put(f, "vendor",
                  ExtractedField("vendor", vend[1].value, "None", "string", vend[1].conf, ln.page,
                                 IF vend[1].conf < 90 THEN "heuristic" ELSE "label",
                                 IF vend[1].conf < 90 THEN "header-line" ELSE "label"))
         ELSE f
    ELSE f

Pass1Body(f, ln) == Pass1Vendor(Pass1PO(Pass1Date(Pass1Total(f, ln), ln), ln), ln)

(***************************************************************************)
(* The conditions that open the two fallback scans of pass 2.              *)
(***************************************************************************)
AfterTotalScanUngated(f) == "pass2_date"

AfterTotalScan(f) == IF "invoiceDate" \notin DOMAIN f THEN "pass2_date" ELSE "done"

AfterPass1Ungated(f) == "pass2_total"

AfterPass1(f) == IF "total" \notin DOMAIN f THEN "pass2_total" ELSE AfterTotalScan(f)

(***************************************************************************)
(* Pass 2, total: the running best (val, page, unit) and the final write.  *)
(***************************************************************************)
BestUpdate(b, ln) ==
    LET am == NormAmount(ln.toks) IN
    IF am = None THEN b
    ELSE IF b = None \/ am[1].val > b[1].val
         THEN Some([val |-> am[1].val, page |-> ln.page, unit |-> am[1].unit])
         ELSE b

TotalFallbackAlwaysWarns(f, w, b) ==
    [fields |-> IF b /= None
                THEN Put(f, "total",
                         ExtractedField("total", b[1].val, UnitOrUSD(b[1].unit), "currency", 70,
                                        b[1].page, "regex", "max-amount"))
                ELSE f,
     warnings |-> Append(w, "total:not_found")]

TotalFallback(f, w, b) ==
    IF b /= None
    THEN [fields |-> Put(f, "total",
                         ExtractedField("total", b[1].val, UnitOrUSD(b[1].unit), "currency", 70,
                                        b[1].page, "regex", "max-amount")),
          warnings |-> w]
    ELSE [fields |-> f, warnings |-> Append(w, "total:not_found")]

(***************************************************************************)
(* Pass 2, invoiceDate: the (date, page) candidates of a line, the first   *)
(* element of sorted(candidates), and the final write.                     *)
(***************************************************************************)
RECURSIVE WithPage(_, _)
WithPage(ds, p) ==
    IF ds = <<>> THEN <<>> ELSE <<[d |-> Head(ds), page |-> p]>> \o WithPage(Tail(ds), p)

CandLE(x, y) == DateLT(x.d, y.d) \/ (x.d = y.d /\ x.page <= y.page)

SortedFirstUnsorted(cs) == cs[1]

SortedFirst(cs) ==
    CHOOSE x \in {cs[j] : j \in 1..Len(cs)} : \A j \in 1..Len(cs) : CandLE(x, cs[j])

DateFallback(f, w, cs) ==
    IF cs /= <<>>
    THEN [fields |-> Put(f, "invoiceDate",
                         ExtractedField("invoiceDate", IsoFormat(SortedFirst(cs).d), "None", "date",
                                        60, SortedFirst(cs).page, "regex", "any-date-earliest")),
          warnings |-> w]
    ELSE [fields |-> f, warnings |-> Append(w, "invoiceDate:not_found")]

(***************************************************************************)
(* Documents.  The lines of a document are drawn from a pool of texts      *)
(* that covers labelled hits and misses of each category, lines with       *)
(* several amounts or dates, and strong and weak vendor lines; pages       *)
(* ascend in reading order as _pdf_to_lines produces them.                 *)
(***************************************************************************)
Pool ==
    { <<Lbl("total"), Delim(":"), Amt("$", 1200)>>,
      <<Lbl("total"), Amt("euro", 50)>>,
      <<Lbl("total"), Word("Due", 2, 1, 3)>>,
      <<Amt("$", 50), Amt("$", 1200)>>,
      <<Lbl("date"), Delim(":"), Iso(2025, 10, 15)>>,
      <<Lbl("date"), Num(12, 11, 2025, 4), Mdy("Jan", 5, 24, 2)>>,
      <<Lbl("date"), Num(31, 2, 2025, 4)>>,
      <<Num(3, 1, 24, 2), Iso(2025, 12, 31)>>,
      <<Mdy("Feb", 29, 2024, 4)>>,
      <<Hint("Vendor"), Delim(":"), Word("Acme Corp", 2, 1, 9)>>,
      <<Lbl("po"), Delim(":"), PoTok("PO-99123", 99123, 1)>>,
      <<PoTok("PO-7", 7, 1)>> }

LineSet == [page : 1..MaxPage, toks : Pool]

Documents ==
    { s \in UNION { [1..n -> LineSet] : n \in 0..MaxLines } :
        \A j \in 1..(Len(s) - 1) : s[j].page <= s[j + 1].page }

(***************************************************************************)
(* Date fragments: every grammar, with the digit groups over small ranges  *)
(* that include impossible days and months, and years written with two,    *)
(* three and four digits.                                                  *)
(***************************************************************************)
YearForms == { <<24, 2>>, <<49, 2>>, <<50, 2>>, <<2023, 4>>, <<2024, 4>>, <<25, 4>>, <<25, 3>> }

Fragments ==
    { Num(a, b, yf[1], yf[2]) : a \in 0..MaxDay, b \in 0..MaxMonth, yf \in YearForms }
    \cup { Iso(yf[1], m, d) : yf \in {y \in YearForms : y[2] = 4}, m \in 0..MaxMonth, d \in 0..MaxDay }
    \cup { Mdy(mon, d, yf[1], yf[2]) : mon \in MonthWords, d \in 0..MaxDay, yf \in YearForms }
    \cup { Dmy(mon, d, yf[1], yf[2]) : mon \in MonthWords, d \in 0..MaxDay, yf \in YearForms }

FragmentDocuments ==
    { <<[page |-> 1, toks |-> pre \o <<fr>>]>> : pre \in {<<>>, <<Lbl("date")>>}, fr \in Fragments }

Start ==
    /\ pc = "pass1"
    /\ i = 1
    /\ fields = EmptyFields
    /\ warnings = <<>>
    /\ best = None
    /\ candidates = <<>>
    /\ after1 = EmptyFields
    /\ visits = [j \in 1..Len(lines) |-> 0]
    /\ outcome = "running"

\* The string form of the lines is at rest while the pipeline is followed
\* on lines already split into page and text.
CodecIdle ==
    /\ raw = [page |-> 0, text |-> <<>>]
    /\ enc = <<>>
    /\ dec = EmptyFields

Init == lines \in Documents /\ Start /\ CodecIdle

InitDates == lines \in FragmentDocuments /\ Start /\ CodecIdle

(***************************************************************************)
(* extract_invoice_fields, one action per loop iteration and per loop      *)
(* exit.  An exception of a normalizer leaves the function (outcome        *)
(* "error"); pc = "done" with outcome "result" is the return of            *)
(* ExtractionResult.  visits counts the iterations over each line and      *)
(* after1 records fields at the end of pass 1.                             *)
(***************************************************************************)
Pass1Line ==
    /\ pc = "pass1"
    /\ i <= Len(lines)
    /\ visits' = [visits EXCEPT ![i] = @ + 1]
    /\ IF LabelIn(lines[i].toks, "date") /\ ExtractDates(lines[i].toks).exc
       THEN /\ pc' = "done"
            /\ outcome' = "error"
            /\ UNCHANGED <<i, fields>>
       ELSE /\ fields' = Pass1Body(fields, lines[i])
            /\ i' = i + 1
            /\ UNCHANGED <<pc, outcome>>
    /\ UNCHANGED <<raw, enc, dec, lines, warnings, best, candidates, after1>>

Pass1End ==
    /\ pc = "pass1"
    /\ i > Len(lines)
    /\ after1' = fields
    /\ pc' = AfterPass1(fields)
    /\ i' = 1
    /\ outcome' = IF AfterPass1(fields) = "done" THEN "result" ELSE outcome
    /\ UNCHANGED <<raw, enc, dec, lines, fields, warnings, best, candidates, visits>>

Pass2TotalLine ==
    /\ pc = "pass2_total"
    /\ i <= Len(lines)
    /\ visits' = [visits EXCEPT ![i] = @ + 1]
    /\ best' = BestUpdate(best, lines[i])
    /\ i' = i + 1
    /\ UNCHANGED <<raw, enc, dec, lines, pc, fields, warnings, candidates, after1, outcome>>

Pass2TotalEnd ==
    /\ pc = "pass2_total"
    /\ i > Len(lines)
    /\ fields' = TotalFallback(fields, warnings, best).fields
    /\ warnings' = TotalFallback(fields, warnings, best).warnings
    /\ pc' = AfterTotalScan(fields')
    /\ i' = 1
    /\ outcome' = IF AfterTotalScan(fields') = "done" THEN "result" ELSE outcome
    /\ UNCHANGED <<raw, enc, dec, lines, best, candidates, after1, visits>>

Pass2DateLine ==
    /\ pc = "pass2_date"
    /\ i <= Len(lines)
    /\ visits' = [visits EXCEPT ![i] = @ + 1]
    /\ IF ExtractDates(lines[i].toks).exc
       THEN /\ pc' = "done"
            /\ outcome' = "error"
            /\ UNCHANGED <<i, candidates>>
       ELSE /\ candidates' = candidates \o WithPage(ExtractDates(lines[i].toks).dates, lines[i].page)
            /\ i' = i + 1
            /\ UNCHANGED <<pc, outcome>>
    /\ UNCHANGED <<raw, enc, dec, lines, fields, warnings, best, after1>>

Pass2DateEnd ==
    /\ pc = "pass2_date"
    /\ i > Len(lines)
    /\ fields' = DateFallback(fields, warnings, candidates).fields
    /\ warnings' = DateFallback(fields, warnings, candidates).warnings
    /\ pc' = "done"
    /\ outcome' = "result"
    /\ UNCHANGED <<raw, enc, dec, lines, i, best, candidates, after1, visits>>

Next ==
    \/ Pass1Line
    \/ Pass1End
    \/ Pass2TotalLine
    \/ Pass2TotalEnd
    \/ Pass2DateLine
    \/ Pass2DateEnd

Spec == Init /\ [][Next]_vars

SpecDates == InitDates /\ [][Next]_vars

TypeOK ==
    /\ pc \in {"pass1", "pass2_total", "pass2_date", "done"}
    /\ i \in 1..(Len(lines) + 1)
    /\ DOMAIN fields \subseteq {"total", "invoiceDate", "poNumber", "vendor"}
    /\ outcome \in {"running", "result", "error"}

(***************************************************************************)
(* Vocabulary of the properties.                                           *)
(***************************************************************************)
Returned == pc = "done" /\ outcome = "result"

Range(s) == {s[j] : j \in 1..Len(s)}

\* The lines pass 1 has processed, and the fields it has produced so far.
Processed == IF pc = "pass1" THEN i - 1 ELSE Len(lines)

Pass1Fields == IF pc = "pass1" THEN fields ELSE after1

FieldName(cat) ==
    CASE cat = "total" -> "total" [] cat = "date" -> "invoiceDate" [] cat = "po" -> "poNumber"

\* A line matches a label of the category and its normalizer yields a value.
LabelHit(ln, cat) ==
    /\ LabelIn(ln.toks, cat)
    /\ CASE cat = "total" -> NormAmount(ln.toks) /= None
         [] cat = "date" -> ExtractDates(ln.toks).dates /= <<>>
         [] cat = "po" -> PoTokenMatch(ln.toks) /= None

HitValue(ln, cat) ==
    CASE cat = "total" -> NormAmount(ln.toks)[1].val
      [] cat = "date" -> IsoFormat(MinDate(ExtractDates(ln.toks).dates))
      [] cat = "po" -> PoTokenMatch(ln.toks)[1]

HitLines(cat, n) == {j \in 1..n : LabelHit(lines[j], cat)}

MaxOf(S) == CHOOSE x \in S : \A y \in S : y <= x

MinOf(S) == CHOOSE x \in S : \A y \in S : x <= y

\* C1: in a returned result, "total:not_found" is in warnings exactly when
\* fields has no total, "invoiceDate:not_found" exactly when fields has no
\* invoiceDate; warnings holds nothing else, no token twice, and total's
\* token before invoiceDate's.
C1_WarningExclusive ==
    Returned =>
        /\ ("total:not_found" \in Range(warnings)) <=> ("total" \notin DOMAIN fields)
        /\ ("invoiceDate:not_found" \in Range(warnings)) <=> ("invoiceDate" \notin DOMAIN fields)
        /\ Range(warnings) \subseteq {"total:not_found", "invoiceDate:not_found"}
        /\ Cardinality(Range(warnings)) = Len(warnings)
        /\ Len(warnings) = 2 => warnings = <<"total:not_found", "invoiceDate:not_found">>

C1_Witness ==
    /\ Returned
    /\ Len(lines) >= 2
    /\ warnings = <<"total:not_found", "invoiceDate:not_found">>
    /\ "vendor" \in DOMAIN fields

\* C2: every field set in pass 1 is in the result unchanged, pass 2 adds
\* only total or invoiceDate and only when pass 1 left it unset, and a
\* field that a labelled line resolved never carries a fallback source.
C2_FallbackGating ==
    Returned =>
        /\ \A n \in DOMAIN after1 : n \in DOMAIN fields /\ fields[n] = after1[n]
        /\ (DOMAIN fields) \ (DOMAIN after1) \subseteq {"total", "invoiceDate"}
        /\ \A cat \in {"total", "date"} :
              HitLines(cat, Len(lines)) /= {} =>
                  fields[FieldName(cat)].source \notin {"max-amount", "any-date-earliest"}

C2_Witness ==
    /\ Returned
    /\ "total" \in DOMAIN after1
    /\ "invoiceDate" \notin DOMAIN after1
    /\ "invoiceDate" \in DOMAIN fields
    /\ fields["total"].source = "label+amount"
    /\ "poNumber" \notin DOMAIN fields

\* C3: after pass 1 has processed any prefix of the lines, each of total,
\* invoiceDate and poNumber is unset when no line of the prefix matched a
\* label of its category with a normalizer hit, and otherwise holds the
\* value and page of the last such line.
C3_LastLabelMatchWins ==
    outcome /= "error" =>
        \A cat \in {"total", "date", "po"} :
            LET hits == HitLines(cat, Processed) IN
            IF hits = {}
            THEN FieldName(cat) \notin DOMAIN Pass1Fields
            ELSE /\ FieldName(cat) \in DOMAIN Pass1Fields
                 /\ Pass1Fields[FieldName(cat)].value = HitValue(lines[MaxOf(hits)], cat)
                 /\ Pass1Fields[FieldName(cat)].page = lines[MaxOf(hits)].page

C3_Witness ==
    /\ pc /= "pass1"
    /\ Len(lines) = 2
    /\ LabelHit(lines[1], "total")
    /\ LabelHit(lines[2], "total")
    /\ HitValue(lines[1], "total") /= HitValue(lines[2], "total")
    /\ lines[1].page /= lines[2].page
    /\ after1["total"].value = HitValue(lines[2], "total")
    /\ after1["total"].page = lines[2].page

\* C4: after pass 1 has processed any prefix of the lines, vendor is unset
\* when no line of the prefix produced a candidate, and otherwise has the
\* maximum candidate confidence of the prefix and the value and page of
\* the last line whose candidate has that confidence.
VendorLines(n) == {j \in 1..n : MaybeVendor(lines[j].toks) /= None}

MaxVendorConf(n) == MaxOf({MaybeVendor(lines[j].toks)[1].conf : j \in VendorLines(n)})

LastBestVendor(n) ==
    MaxOf({j \in VendorLines(n) : MaybeVendor(lines[j].toks)[1].conf = MaxVendorConf(n)})

AmountsOnLine(j) == {AllAmounts(lines[j].toks)[h].val : h \in 1..Len(AllAmounts(lines[j].toks))}

DocumentAmounts == UNION {AmountsOnLine(j) : j \in 1..Len(lines)}

DatesOnLine(j) == Range(ExtractDates(lines[j].toks).dates)

DocumentDates == UNION {DatesOnLine(j) : j \in 1..Len(lines)}

EarliestDate == CHOOSE d \in DocumentDates : \A e \in DocumentDates : DateLE(d, e)

\* The only digits of the document are those of written amounts.
OnlyWrittenAmounts ==
    \A j \in 1..Len(lines) : \A h \in 1..Len(lines[j].toks) :
        AmountMatches(lines[j].toks[h]) /= <<>> => lines[j].toks[h].k = "amt"

\* C5: when total is unset after pass 1 and the document holds an amount,
\* the result's total is the maximum of all amounts of all lines, with
\* confidence 0.7, source max-amount and the page of the first line that
\* holds that maximum.  Stated for the documents whose only digits are
\* written amounts, where no date or identifier is read as an amount.
C5_FallbackTotalIsDocumentMaximum ==
    (Returned /\ OnlyWrittenAmounts /\ "total" \notin DOMAIN after1 /\ DocumentAmounts /= {}) =>
        /\ "total" \in DOMAIN fields
        /\ fields["total"].value = MaxOf(DocumentAmounts)
        /\ fields["total"].confidence = 70
        /\ fields["total"].source = "max-amount"
        /\ fields["total"].page =
              lines[MinOf({j \in 1..Len(lines) : MaxOf(DocumentAmounts) \in AmountsOnLine(j)})].page

\* C6: when invoiceDate is unset after pass 1 and some line holds a valid
\* date, the result's invoiceDate is the earliest of all dates of all
\* lines, with confidence 0.6, source any-date-earliest and the lowest
\* page on which that date occurs.
C6_FallbackDateIsEarliest ==
    (Returned /\ "invoiceDate" \notin DOMAIN after1 /\ DocumentDates /= {}) =>
        /\ "invoiceDate" \in DOMAIN fields
        /\ fields["invoiceDate"].value = IsoFormat(EarliestDate)
        /\ fields["invoiceDate"].confidence = 60
        /\ fields["invoiceDate"].source = "any-date-earliest"
        /\ fields["invoiceDate"].page =
              MinOf({lines[j].page : j \in {h \in 1..Len(lines) : EarliestDate \in DatesOnLine(h)}})

C6_Witness ==
    /\ Returned
    /\ "invoiceDate" \notin DOMAIN after1
    /\ Len(lines) = 2
    /\ Cardinality(DatesOnLine(1)) = 1
    /\ Cardinality(DatesOnLine(2)) = 2
    /\ EarliestDate \notin DatesOnLine(1)
    /\ ExtractDates(lines[2].toks).dates[1] /= EarliestDate
    /\ lines[1].page = 1 /\ lines[2].page = 2
    /\ fields["invoiceDate"].page = 2

\* C7 as stated: no line is visited more than twice.
C7_AtMostTwoVisits == \A k \in DOMAIN visits : visits[k] <= 2

\* C7, amended: the pipeline only moves forward through pass 1, the total
\* scan, the date scan and the return, and a returned run has visited each
\* line once in pass 1 and once more for each of total and invoiceDate
\* that pass 1 left unset: at most three times.
StageRank(p) ==
    CASE p = "pass1" -> 1 [] p = "pass2_total" -> 2 [] p = "pass2_date" -> 3 [] p = "done" -> 4

MissingAfterPass1 ==
    (IF "total" \notin DOMAIN after1 THEN 1 ELSE 0)
    + (IF "invoiceDate" \notin DOMAIN after1 THEN 1 ELSE 0)

C7_VisitsPerMissingField ==
    /\ [](\A k \in DOMAIN visits : visits[k] <= 3)
    /\ [](Returned => \A k \in DOMAIN visits : visits[k] = 1 + MissingAfterPass1)
    /\ [][StageRank(pc') >= StageRank(pc)]_vars

C7_Witness ==
    /\ Returned
    /\ Len(lines) = 2
    /\ "total" \notin DOMAIN after1
    /\ "invoiceDate" \notin DOMAIN after1
    /\ \A k \in DOMAIN visits : visits[k] = 3

Fragment == lines[1].toks[Len(lines[1].toks)]

\* The calendar month a month word names.
MonthNumber(word) ==
    CASE word = "Jan" -> 1 [] word = "Feb" -> 2 [] word = "sept" -> 9
      [] word = "October" -> 10 [] word = "Dec" -> 12

IsCalendarDate(y, m, d) ==
    /\ y \in 1..9999
    /\ m \in 1..12
    /\ d >= 1
    /\ d <= (IF m = 2 THEN (IF (y % 4 = 0 /\ y % 100 /= 0) \/ y % 400 = 0 THEN 29 ELSE 28)
             ELSE IF m \in {4, 6, 9, 11} THEN 30 ELSE 31)

\* A year written with two digits is pivoted at 50.
TwoDigitPivot(y, w) == IF w = 2 THEN (IF y < 50 THEN 2000 + y ELSE 1900 + y) ELSE y

\* A year whose value is below 100 is pivoted at 50, however it is written.
ValuePivot(y) == IF y < 100 THEN (IF y < 50 THEN 2000 + y ELSE 1900 + y) ELSE y

ResultIsDate(y, m, d) ==
    /\ "invoiceDate" \in DOMAIN fields
    /\ fields["invoiceDate"].value = [year |-> y, month |-> m, day |-> d]

ResultHasNoDate ==
    /\ "invoiceDate" \notin DOMAIN fields
    /\ "invoiceDate:not_found" \in Range(warnings)

\* C9: a numeric fragment a/b/y yields exactly the date with day a, month b
\* and year y, a year written with two digits being 2000+y below 50 and
\* 1900+y from 50 on; when that is no calendar date the fragment yields no
\* date and no error.
C9_NumericIsDayMonthYear ==
    outcome /= "error" /\
    ((Returned /\ Fragment.k = "num") =>
        IF IsCalendarDate(TwoDigitPivot(Fragment.c, Fragment.w), Fragment.b, Fragment.a)
        THEN ResultIsDate(TwoDigitPivot(Fragment.c, Fragment.w), Fragment.b, Fragment.a)
        ELSE ResultHasNoDate)

\* C10 as stated: a fragment written Day Month Year yields the date that
\* the same month, day and year written Month Day, Year yield.
C10_BothOrdersRecognized ==
    (Returned /\ Fragment.k = "dmy"
        /\ IsCalendarDate(ValuePivot(Fragment.c), MonthNumber(Fragment.txt), Fragment.b)) =>
        ResultIsDate(ValuePivot(Fragment.c), MonthNumber(Fragment.txt), Fragment.b)

\* C10, amended: a fragment written Month Day, Year yields the date of that
\* month, day and year (a year value below 100 pivoted at 50) when that is
\* a calendar date and nothing otherwise; a fragment written Day Month Year
\* yields no date, so a line whose only date is written that way gives
\* invoiceDate:not_found.
C10_MonthFirstOnly ==
    /\ (Returned /\ Fragment.k = "mdy") =>
          IF IsCalendarDate(ValuePivot(Fragment.c), MonthNumber(Fragment.txt), Fragment.b)
          THEN ResultIsDate(ValuePivot(Fragment.c), MonthNumber(Fragment.txt), Fragment.b)
          ELSE ResultHasNoDate
    /\ (Returned /\ Fragment.k = "dmy") => ResultHasNoDate

C10_Witness ==
    /\ Returned
    /\ Fragment = Dmy("October", 15, 2024, 4)
    /\ LabelIn(lines[1].toks, "date")
    /\ ResultHasNoDate

(***************************************************************************)
(* The string form of a line.  _pdf_to_lines joins the page number and     *)
(* the stripped text of a line into one string, page digits, "|||", text;  *)
(* pass 1, _maybe_vendor and the two scans of pass 2 each split it again.  *)
(* Here a string is a sequence of characters, so that the join and the     *)
(* split are computed as str.format, str.split and int compute them.       *)
(***************************************************************************)
Marker == <<"|", "|", "|">>

Chars == {"|", "a", "7"}

Texts == UNION { [1..n -> Chars] : n \in 1..MaxTextLen }

RawLines == [page : 1..MaxPageNo, text : Texts]

DIGITS == <<"0", "1", "2", "3", "4", "5", "6", "7", "8", "9">>

\* The decimal digits of a non-negative integer, as the f-string writes it.
RECURSIVE Str(_)
Str(n) == IF n < 10 THEN <<DIGITS[n + 1]>> ELSE Str(n \div 10) \o <<DIGITS[(n % 10) + 1]>>

IsDigit(c) == \E d \in 1..10 : DIGITS[d] = c

DigitValue(c) == (CHOOSE d \in 1..10 : DIGITS[d] = c) - 1

RECURSIVE DigitsValue(_)
DigitsValue(s) ==
    IF s = <<>> THEN 0
    ELSE 10 * DigitsValue(SubSeq(s, 1, Len(s) - 1)) + DigitValue(s[Len(s)])

\* int(s): ValueError on the empty string and on a character that is no digit.
ParseInt(s) ==
    IF s /= <<>> /\ \A k \in 1..Len(s) : IsDigit(s[k])
    THEN [exc |-> FALSE, val |-> DigitsValue(s)]
    ELSE [exc |-> TRUE, val |-> 0]

\* f"{p}|||{t}"
Encode(r) == Str(r.page) \o Marker \o r.text

Occurrences(s) == {k \in 1..(Len(s) - 2) : SubSeq(s, k, k + 2) = Marker}

\* s.split("|||", 1): one split, at the leftmost occurrence of the marker.
SplitOnceAtLast(s) ==
    IF Occurrences(s) = {} THEN <<s>>
    ELSE <<SubSeq(s, 1, MaxOf(Occurrences(s)) - 1),
           SubSeq(s, MaxOf(Occurrences(s)) + 3, Len(s))>>

SplitOnce(s) ==
    IF Occurrences(s) = {} THEN <<s>>
    ELSE <<SubSeq(s, 1, MinOf(Occurrences(s)) - 1),
           SubSeq(s, MinOf(Occurrences(s)) + 3, Len(s))>>

\* page_num, txt = line.split("|||", 1); p = int(page_num): the unpacking
\* raises unless the split gives two parts, int raises on a non-number.
DecodePageText(s) ==
    LET parts == SplitOnce(s) IN
    IF Len(parts) /= 2 \/ ParseInt(parts[1]).exc
    THEN [exc |-> TRUE, page |-> 0, text |-> <<>>]
    ELSE [exc |-> FALSE, page |-> ParseInt(parts[1]).val, text |-> parts[2]]

\* txt = line.split("|||", 1)[1]: the text alone, no page is read.
DecodeText(s) ==
    LET parts == SplitOnce(s) IN
    IF Len(parts) < 2
    THEN [exc |-> TRUE, page |-> 0, text |-> <<>>]
    ELSE [exc |-> FALSE, page |-> 0, text |-> parts[2]]

InitEncode ==
    /\ raw \in RawLines
    /\ enc = <<>>
    /\ dec = EmptyFields
    /\ lines = <<>>
    /\ Start

\* _pdf_to_lines returns the joined string of the line.
PdfToLines ==
    /\ raw.text /= <<>>
    /\ enc = <<>>
    /\ enc' = Encode(raw)
    /\ UNCHANGED <<raw, dec, lines, pc, i, fields, warnings, best, candidates, after1, visits,
                   outcome>>

\* The four places that split the string, in the order the code reaches them.
DecodePass1 ==
    /\ enc /= <<>>
    /\ "pass1" \notin DOMAIN dec
    /\ {} \subseteq DOMAIN dec
    /\ dec' = Put(dec, "pass1", DecodePageText(enc))
    /\ UNCHANGED <<raw, enc, lines, pc, i, fields, warnings, best, candidates, after1, visits,
                   outcome>>

DecodeVendor ==
    /\ enc /= <<>>
    /\ "vendor" \notin DOMAIN dec
    /\ {"pass1"} \subseteq DOMAIN dec
    /\ dec' = Put(dec, "vendor", DecodeText(enc))
    /\ UNCHANGED <<raw, enc, lines, pc, i, fields, warnings, best, candidates, after1, visits,
                   outcome>>

DecodePass2Total ==
    /\ enc /= <<>>
    /\ "pass2_total" \notin DOMAIN dec
    /\ {"pass1", "vendor"} \subseteq DOMAIN dec
    /\ dec' = Put(dec, "pass2_total", DecodePageText(enc))
    /\ UNCHANGED <<raw, enc, lines, pc, i, fields, warnings, best, candidates, after1, visits,
                   outcome>>

DecodePass2Date ==
    /\ enc /= <<>>
    /\ "pass2_date" \notin DOMAIN dec
    /\ {"pass1", "vendor", "pass2_total"} \subseteq DOMAIN dec
    /\ dec' = Put(dec, "pass2_date", DecodePageText(enc))
    /\ UNCHANGED <<raw, enc, lines, pc, i, fields, warnings, best, candidates, after1, visits,
                   outcome>>

NextEncode ==
    \/ PdfToLines
    \/ DecodePass1
    \/ DecodeVendor
    \/ DecodePass2Total
    \/ DecodePass2Date

SpecEncode == InitEncode /\ [][NextEncode]_vars

\* C11: every place that splits the joined string of a line recovers the
\* text of the line, and the page where it reads one, without an error,
\* also when the text itself contains "|||".
C11_EncodingRoundTrips ==
    \A place \in DOMAIN dec :
        /\ ~dec[place].exc
        /\ dec[place].text = raw.text
        /\ place /= "vendor" => dec[place].page = raw.page

C11_Witness ==
    /\ DOMAIN dec = {"pass1", "vendor", "pass2_total", "pass2_date"}
    /\ raw.text = <<"|", "|", "|", "7">>
    /\ raw.page >= 10
    /\ dec["pass2_date"].page = raw.page
    /\ dec["vendor"].text = raw.text

====
